---- MODULE Spec2Model ----
(***************************************************************************)
(* Model of library/ntc_save_config.py: one invocation of main().  The     *)
(* pyntc driver and the Ansible framework are external; they appear here   *)
(* only through the calls main() makes on them.  A driver call may return  *)
(* or raise; device.save returns a boolean chosen by the device.           *)
(***************************************************************************)
EXTENDS Integers, Sequences, FiniteSets, TLC

(* ---- bounds of the explored inputs ---- *)
MaxPort == 1

(* ---- Python's None and optional values ---- *)
None == <<>>
Some(v) == <<v>>
Val(o) == o[1]

(* truth value of an optional string: None and '' are false *)
Truthy(o) == o # None /\ Val(o) # ""

(* ---- module-level constants of the source ---- *)
PLATFORM_NXAPI == "cisco_nxos_nxapi"
PLATFORM_IOS == "cisco_ios"
PLATFORM_EAPI == "arista_eos_eapi"

Platforms == {PLATFORM_NXAPI, PLATFORM_IOS, PLATFORM_EAPI}

platform_to_device_type(p) ==
    CASE p = PLATFORM_EAPI -> "eos"
      [] p = PLATFORM_NXAPI -> "nxos"
      [] p = PLATFORM_IOS -> "ios"

StartupConfig == "(Startup Config)"
PyntcMissingMsg == "pyntc Python library not found."

(* ---- the values the argument_spec admits ---- *)
Transports == {None, Some("http"), Some("https")}
Ports == {None} \cup {Some(n) : n \in 0..MaxPort}
Secrets == {None, Some(""), Some("enable")}
RemoteFiles == {None, Some(""), Some("running_config_copy.cfg")}
LocalFiles == {None, Some(""), Some("backup.cfg")}

OptKeys == {"transport", "port", "secret"}

VARIABLES
    HAS_PYNTC,               \* outcome of "from pyntc import ntc_device"
    params,                  \* module.params
    pc,                      \* position of main()
    kwargs,                  \* local kwargs
    device_type,             \* local device_type
    device,                  \* arguments ntc_device was constructed with
    calls,                   \* the device method calls made so far, in order
    remote_save_successful,  \* local remote_save_successful
    changed,                 \* local changed
    exception,               \* the driver call whose error left main()
    emitted,                 \* results handed to module.exit_json
    failed                   \* messages handed to module.fail_json

vars == <<HAS_PYNTC, params, pc, kwargs, device_type, device, calls,
          remote_save_successful, changed, exception, emitted, failed>>

Call(op, arg, ret) == [op |-> op, arg |-> arg, ret |-> ret]

(* AnsibleModule(argument_spec=...): the parsed parameters *)
AnsibleModule ==
    [platform : Platforms, host : {"sw1"}, username : {"admin"},
     password : {"pw"}, transport : Transports, port : Ports,
     secret : Secrets, remote_file : RemoteFiles, local_file : LocalFiles]

Init ==
    /\ HAS_PYNTC \in BOOLEAN
    /\ params \in AnsibleModule
    /\ pc = "check"
    /\ kwargs = None
    /\ device_type = None
    /\ device = None
    /\ calls = <<>>
    /\ remote_save_successful = None
    /\ changed = None
    /\ exception = None
    /\ emitted = <<>>
    /\ failed = <<>>

(* lines 158-159: fail_json ends the process *)
CheckPyntcIgnored ==
    /\ pc = "check"
    /\ pc' = "params"
    /\ UNCHANGED <<HAS_PYNTC, params, kwargs, device_type, device, calls,
                   remote_save_successful, changed, exception, emitted, failed>>

CheckPyntc ==
    /\ pc = "check"
    /\ IF HAS_PYNTC
         THEN /\ pc' = "params"
              /\ failed' = failed
         ELSE /\ pc' = "failed"
              /\ failed' = Append(failed, PyntcMissingMsg)
    /\ UNCHANGED <<HAS_PYNTC, params, kwargs, device_type, device, calls,
                   remote_save_successful, changed, exception, emitted>>

(* lines 173-179, with truthiness in place of "is not None" *)
BuildKwargsTruthy(transport, port, secret) ==
    LET supplied == [transport |-> transport, port |-> port, secret |-> secret]
        keys == {k \in OptKeys :
                   /\ supplied[k] # None
                   /\ IF k = "port" THEN Val(supplied[k]) # 0
                                    ELSE Val(supplied[k]) # ""}
    IN  [k \in keys |-> Val(supplied[k])]

(* lines 173-179 *)
BuildKwargs(transport, port, secret) ==
    LET supplied == [transport |-> transport, port |-> port, secret |-> secret]
        keys == {k \in OptKeys : supplied[k] # None}
    IN  [k \in keys |-> Val(supplied[k])]

(* lines 161-181: the locals *)
ReadParams ==
    /\ pc = "params"
    /\ kwargs' = Some(BuildKwargs(params.transport, params.port, params.secret))
    /\ device_type' = Some(platform_to_device_type(params.platform))
    /\ pc' = "construct"
    /\ UNCHANGED <<HAS_PYNTC, params, device, calls, remote_save_successful,
                   changed, exception, emitted, failed>>

(* line 182 *)
Construct ==
    /\ pc = "construct"
    /\ device' = Some([device_type |-> Val(device_type), host |-> params.host,
                       username |-> params.username,
                       password |-> params.password, kwargs |-> Val(kwargs)])
    /\ pc' = "open"
    /\ UNCHANGED <<HAS_PYNTC, params, kwargs, device_type, calls,
                   remote_save_successful, changed, exception, emitted, failed>>

ConstructRaise ==
    /\ pc = "construct"
    /\ exception' = Some("ntc_device")
    /\ pc' = "raised"
    /\ UNCHANGED <<HAS_PYNTC, params, kwargs, device_type, device, calls,
                   remote_save_successful, changed, emitted, failed>>

(* line 184 *)
Open ==
    /\ pc = "open"
    /\ calls' = Append(calls, Call("open", None, None))
    /\ pc' = "save"
    /\ UNCHANGED <<HAS_PYNTC, params, kwargs, device_type, device,
                   remote_save_successful, changed, exception, emitted, failed>>

OpenRaise ==
    /\ pc = "open"
    /\ calls' = Append(calls, Call("open", None, None))
    /\ exception' = Some("open")
    /\ pc' = "raised"
    /\ UNCHANGED <<HAS_PYNTC, params, kwargs, device_type, device,
                   remote_save_successful, changed, emitted, failed>>

(* lines 186-189, always saving to the startup configuration *)
SaveArgsStartupOnly(remote_file) == None

(* lines 186-189: the argument of device.save; None is save() *)
SaveArgs(remote_file) ==
    IF Truthy(remote_file) THEN remote_file ELSE None

(* lines 186-191, the local backup skipped after a failed remote save *)
SaveReturnSkipsBackup ==
    /\ pc = "save"
    /\ \E ret \in BOOLEAN :
         /\ calls' = Append(calls, Call("save", SaveArgs(params.remote_file), Some(ret)))
         /\ remote_save_successful' = Some(ret)
         /\ changed' = Some(ret)
         /\ pc' = IF ret THEN "backup" ELSE "close"
    /\ UNCHANGED <<HAS_PYNTC, params, kwargs, device_type, device, exception,
                   emitted, failed>>

(* lines 186-191, changed set regardless of the save *)
SaveReturnChanged ==
    /\ pc = "save"
    /\ \E ret \in BOOLEAN :
         /\ calls' = Append(calls, Call("save", SaveArgs(params.remote_file), Some(ret)))
         /\ remote_save_successful' = Some(ret)
         /\ changed' = Some(TRUE)
    /\ pc' = "backup"
    /\ UNCHANGED <<HAS_PYNTC, params, kwargs, device_type, device, exception,
                   emitted, failed>>

(* lines 186-191 *)
SaveReturn ==
    /\ pc = "save"
    /\ \E ret \in BOOLEAN :
         /\ calls' = Append(calls, Call("save", SaveArgs(params.remote_file), Some(ret)))
         /\ remote_save_successful' = Some(ret)
         /\ changed' = Some(ret)
    /\ pc' = "backup"
    /\ UNCHANGED <<HAS_PYNTC, params, kwargs, device_type, device, exception,
                   emitted, failed>>

(* lines 186-189, the error swallowed and the save counted as failed *)
SaveRaiseSwallowed ==
    /\ pc = "save"
    /\ calls' = Append(calls, Call("save", SaveArgs(params.remote_file), None))
    /\ exception' = Some("save")
    /\ remote_save_successful' = Some(FALSE)
    /\ changed' = Some(FALSE)
    /\ pc' = "backup"
    /\ UNCHANGED <<HAS_PYNTC, params, kwargs, device_type, device, emitted, failed>>

SaveRaise ==
    /\ pc = "save"
    /\ calls' = Append(calls, Call("save", SaveArgs(params.remote_file), None))
    /\ exception' = Some("save")
    /\ pc' = "raised"
    /\ UNCHANGED <<HAS_PYNTC, params, kwargs, device_type, device,
                   remote_save_successful, changed, emitted, failed>>

(* lines 192-194, changed left as the remote save set it *)
BackupKeepsChanged ==
    /\ pc = "backup"
    /\ Truthy(params.local_file)
    /\ calls' = Append(calls, Call("backup_running_config", params.local_file, None))
    /\ pc' = "close"
    /\ UNCHANGED <<HAS_PYNTC, params, kwargs, device_type, device,
                   remote_save_successful, changed, exception, emitted, failed>>

(* lines 192-194 *)
Backup ==
    /\ pc = "backup"
    /\ Truthy(params.local_file)
    /\ calls' = Append(calls, Call("backup_running_config", params.local_file, None))
    /\ changed' = Some(TRUE)
    /\ pc' = "close"
    /\ UNCHANGED <<HAS_PYNTC, params, kwargs, device_type, device,
                   remote_save_successful, exception, emitted, failed>>

BackupRaise ==
    /\ pc = "backup"
    /\ Truthy(params.local_file)
    /\ calls' = Append(calls, Call("backup_running_config", params.local_file, None))
    /\ exception' = Some("backup_running_config")
    /\ pc' = "raised"
    /\ UNCHANGED <<HAS_PYNTC, params, kwargs, device_type, device,
                   remote_save_successful, changed, emitted, failed>>

(* line 192 false, the session left open *)
SkipBackupNoClose ==
    /\ pc = "backup"
    /\ ~Truthy(params.local_file)
    /\ pc' = "exit"
    /\ UNCHANGED <<HAS_PYNTC, params, kwargs, device_type, device, calls,
                   remote_save_successful, changed, exception, emitted, failed>>

(* line 192 false *)
SkipBackup ==
    /\ pc = "backup"
    /\ ~Truthy(params.local_file)
    /\ pc' = "close"
    /\ UNCHANGED <<HAS_PYNTC, params, kwargs, device_type, device, calls,
                   remote_save_successful, changed, exception, emitted, failed>>

(* line 196 *)
Close ==
    /\ pc = "close"
    /\ calls' = Append(calls, Call("close", None, None))
    /\ pc' = "exit"
    /\ UNCHANGED <<HAS_PYNTC, params, kwargs, device_type, device,
                   remote_save_successful, changed, exception, emitted, failed>>

CloseRaise ==
    /\ pc = "close"
    /\ calls' = Append(calls, Call("close", None, None))
    /\ exception' = Some("close")
    /\ pc' = "raised"
    /\ UNCHANGED <<HAS_PYNTC, params, kwargs, device_type, device,
                   remote_save_successful, changed, emitted, failed>>

(* line 198, the placeholder only for None *)
ResolveRemoteFileNoneOnly(remote_file) ==
    IF remote_file # None THEN Val(remote_file) ELSE StartupConfig

(* line 198: remote_file or '(Startup Config)' *)
ResolveRemoteFile(remote_file) ==
    IF Truthy(remote_file) THEN Val(remote_file) ELSE StartupConfig

(* lines 198-199 *)
ExitJson ==
    /\ pc = "exit"
    /\ emitted' = Append(emitted,
          [changed |-> Val(changed),
           remote_save_successful |-> Val(remote_save_successful),
           remote_file |-> ResolveRemoteFile(params.remote_file),
           local_file |-> params.local_file])
    /\ pc' = "done"
    /\ UNCHANGED <<HAS_PYNTC, params, kwargs, device_type, device, calls,
                   remote_save_successful, changed, exception, failed>>

Next ==
    \/ CheckPyntc
    \/ ReadParams
    \/ Construct
    \/ ConstructRaise
    \/ Open
    \/ OpenRaise
    \/ SaveReturn
    \/ SaveRaise
    \/ Backup
    \/ BackupRaise
    \/ SkipBackup
    \/ Close
    \/ CloseRaise
    \/ ExitJson

Spec == Init /\ [][Next]_vars

(* ---- auxiliary definitions of the properties ---- *)
CallsOf(op) == SelectSeq(calls, LAMBDA c : c.op = op)
Called(op) == \E i \in DOMAIN calls : calls[i].op = op
Reported == emitted # <<>>
Empty(o) == o = None \/ o = Some("")
Rank(op) ==
    CASE op = "open" -> 1
      [] op = "save" -> 2
      [] op = "backup_running_config" -> 3
      [] op = "close" -> 4
SessionOpened == Called("open") /\ exception # Some("open")
Ended == pc \in {"done", "raised", "failed"}

(* C1: a reported result has changed = true whenever local_file is non-empty,
   whatever the remote save returned. *)
C1_ChangedWhenLocalFile ==
    (Reported /\ ~Empty(params.local_file)) => emitted[1].changed = TRUE

C1_Witness ==
    /\ Reported
    /\ ~Empty(params.local_file)
    /\ Called("save") /\ CallsOf("save")[1].ret = Some(FALSE)
    /\ Called("backup_running_config")

(* C2: a reported result with local_file empty or absent has changed equal to
   what the remote save returned. *)
C2_ChangedIsRemoteSave ==
    (Reported /\ Empty(params.local_file)) =>
        /\ Called("save")
        /\ emitted[1].changed = Val(CallsOf("save")[1].ret)

C2_Witness ==
    /\ Reported
    /\ Empty(params.local_file)
    /\ CallsOf("save")[1].ret = Some(FALSE)
    /\ emitted[1].changed = FALSE

(* C3: the reported remote_file is "(Startup Config)" when the parameter is
   empty or absent and the supplied name otherwise. *)
C3_RemoteFileLabel ==
    Reported =>
        emitted[1].remote_file =
            IF Empty(params.remote_file) THEN "(Startup Config)"
                                         ELSE Val(params.remote_file)

C3_Witness ==
    /\ Reported
    /\ params.remote_file = Some("")
    /\ emitted[1].remote_file = "(Startup Config)"

(* C4: when main() has ended, a session it opened has been closed, also when
   device.save or device.backup_running_config failed. *)
C4_OpenedSessionClosedAtEnd ==
    (Ended /\ SessionOpened) => Called("close")

(* C5: without pyntc, main() calls fail_json, never constructs ntc_device,
   calls no device method and emits no result. *)
C5_NoDeviceContactWithoutPyntc ==
    ~HAS_PYNTC =>
        /\ device = None
        /\ calls = <<>>
        /\ emitted = <<>>
        /\ pc \in {"check", "failed"}
        /\ pc = "failed" => failed = <<"pyntc Python library not found.">>
        /\ pc = "check" => failed = <<>>

C5_Witness ==
    ~HAS_PYNTC /\ pc = "failed" /\ Len(failed) = 1

(* C6: each of transport, port and secret is among the keyword arguments of
   ntc_device exactly when the caller supplied it (not None), and then with
   the supplied value. *)
C6_KwargsOnlyWhenSupplied ==
    device # None =>
        \A k \in {"transport", "port", "secret"} :
            /\ k \in DOMAIN Val(device).kwargs <=> params[k] # None
            /\ params[k] # None => Val(device).kwargs[k] = Val(params[k])

C6_Witness ==
    /\ device # None
    /\ params.port = Some(0)
    /\ params.secret = Some("")
    /\ params.transport = None
    /\ DOMAIN Val(device).kwargs = {"port", "secret"}

(* C7: an invocation that opened a session makes exactly one device.save
   call, with the supplied name when remote_file is non-empty and with no
   name otherwise. *)
C7_ExactlyOneSave ==
    /\ Len(CallsOf("save")) <= 1
    /\ (SessionOpened /\ pc # "save") => Len(CallsOf("save")) = 1
    /\ \A i \in DOMAIN calls :
          calls[i].op = "save" =>
              calls[i].arg = IF Empty(params.remote_file) THEN None
                                                          ELSE params.remote_file

C7_Witness ==
    /\ pc = "done"
    /\ ~Empty(params.remote_file)
    /\ Len(CallsOf("save")) = 1
    /\ CallsOf("save")[1].arg = params.remote_file

(* C8: an error raised by a driver call leaves main() at once: the failed
   call is the last driver call and was made once, nothing further can
   happen, and no result is emitted. *)
C8_DriverErrorPropagates ==
    exception # None =>
        /\ pc = "raised"
        /\ ~ENABLED Next
        /\ emitted = <<>>
        /\ failed = <<>>
        /\ IF exception = Some("ntc_device")
             THEN calls = <<>> /\ device = None
             ELSE /\ calls # <<>>
                  /\ calls[Len(calls)].op = Val(exception)
                  /\ Len(CallsOf(Val(exception))) = 1

C8_Witness ==
    /\ exception = Some("save")
    /\ pc = "raised"
    /\ ~Empty(params.local_file)
    /\ ~Called("backup_running_config")

(* C9: a remote save that returns failure does not stop the local backup or
   the report: with local_file non-empty backup_running_config(local_file)
   is called; the result carries the value the save returned and local_file
   as given; with local_file empty or absent no backup call is made. *)
C9_FailedSaveStillBacksUp ==
    /\ (pc \in {"close", "exit", "done"} /\ ~Empty(params.local_file)) =>
          /\ Len(CallsOf("backup_running_config")) = 1
          /\ CallsOf("backup_running_config")[1].arg = params.local_file
    /\ Reported =>
          /\ emitted[1].remote_save_successful = Val(CallsOf("save")[1].ret)
          /\ emitted[1].local_file = params.local_file
    /\ Empty(params.local_file) => ~Called("backup_running_config")

C9_Witness ==
    /\ Reported
    /\ ~Empty(params.local_file)
    /\ CallsOf("save")[1].ret = Some(FALSE)
    /\ emitted[1].remote_save_successful = FALSE
    /\ Called("backup_running_config")

(* C10: the device calls occur in the order open, save, optional backup,
   close, each at most once, none before open or after close, and the result
   is reported at most once and only after close. *)
C10_CallOrder ==
    /\ \A i, j \in DOMAIN calls :
          i < j => Rank(calls[i].op) < Rank(calls[j].op)
    /\ calls # <<>> => calls[1].op = "open"
    /\ \A i \in DOMAIN calls :
          calls[i].op \in {"backup_running_config", "close"} => Called("save")
    /\ Len(emitted) <= 1
    /\ Reported => /\ calls[Len(calls)].op = "close"
                   /\ pc = "done"
                   /\ ~ENABLED Next

C10_Witness ==
    /\ Reported
    /\ Len(calls) = 4
    /\ calls[3].op = "backup_running_config"

====
